---------------------------- MODULE Spec2Model ----------------------------
(***************************************************************************)
(* One invocation of sqs_lambda_handler (src/lambdas/aggregator.py): the   *)
(* SOP instances named in the payload are read from S3 and grouped into a  *)
(* Study, the Study is mapped onto the FHIR ImagingStudy template and the   *)
(* resource is POSTed to HealthLake.                                        *)
(*                                                                         *)
(* Python values are modelled as follows.                                   *)
(*   str      a TLA+ string; '' is "".  String operations the code uses    *)
(*            (list(), +, int()) are tables over the strings of the model. *)
(*   dict     a function; a pydicom Dataset is a function from             *)
(*            <<group, element>> to the element's value.                    *)
(*   JSON     a tagged node: [str |-> s], [int |-> n], [uri |-> u],        *)
(*            [dict |-> f] with f a function from keys K(s) / I(n), and    *)
(*            [list |-> q] with q a sequence (Python index n is q[n+1]).   *)
(*   raise    an operator that may raise returns [ok |-> FALSE,            *)
(*            exc |-> <exception class>] instead of [ok |-> TRUE,          *)
(*            val |-> <value>].                                            *)
(***************************************************************************)
EXTENDS Integers, Sequences, FiniteSets, TLC

\* Longest list of instance keys in a payload.
MaxKeys == 3
\* Longest 'tags_to_fhir' list of the template map.
MaxTags == 2
\* Most records in an event of the model.
MaxRecords == 2
\* Most calls of Study.imagingstudy on one Study.
MaxCalls == 2
\* SqsEventSource(dicom_queue, batch_size=10): most records in an event.
batch_size == 10

None == [None |-> TRUE]

K(s) == [k |-> s]
I(n) == [i |-> n]
JStr(s) == [str |-> s]
JInt(n) == [int |-> n]
JUri(u) == [uri |-> u]
JDict(f) == [dict |-> f]
JList(q) == [list |-> q]

Raise(e) == [ok |-> FALSE, exc |-> e]
Return(v) == [ok |-> TRUE, val |-> v]

SeqUpTo(S, n) == UNION {[1..m -> S] : m \in 0..n}

(***************************************************************************)
(* resources.py                                                            *)
(***************************************************************************)
dicom_attribute_map ==
  [t \in {"(0020,000D)", "(0020,000E)", "(0008,0018)", "(0010,0020)",
          "(0008,0020)", "(0008,0060)", "(0018,0015)"} |->
     CASE t = "(0020,000D)" -> [key0 |-> "0020", key1 |-> "000D", element_prefix |-> ""]
       [] t = "(0020,000E)" -> [key0 |-> "0020", key1 |-> "000E", element_prefix |-> ""]
       [] t = "(0008,0018)" -> [key0 |-> "0008", key1 |-> "0018", element_prefix |-> ""]
       [] t = "(0010,0020)" -> [key0 |-> "0010", key1 |-> "0020", element_prefix |-> "Patient/"]
       [] t = "(0008,0020)" -> [key0 |-> "0008", key1 |-> "0020", element_prefix |-> ""]
       [] t = "(0008,0060)" -> [key0 |-> "0008", key1 |-> "0060", element_prefix |-> ""]
       [] t = "(0018,0015)" -> [key0 |-> "0018", key1 |-> "0015", element_prefix |-> ""]]

(***************************************************************************)
(* The environment: the ingest bucket.  Each key stands for one kind of    *)
(* object; a payload is any list of these keys.                            *)
(***************************************************************************)
bucket == "bkt"

\* A header carrying every element read_instance reads.
Dataset(study, series, sop, patient, number, series_number) ==
  <<"0020", "000D">> :> study  @@ <<"0020", "000E">> :> series @@
  <<"0008", "0018">> :> sop    @@ <<"0010", "0020">> :> patient @@
  <<"0008", "0020">> :> "20200101" @@ <<"0020", "0013">> :> number @@
  <<"0020", "0011">> :> series_number @@ <<"0008", "0060">> :> "CT"

WithBodyPart(dcm) == dcm @@ <<"0018", "0015">> :> "CHEST"

WithoutStudyUid(dcm) == [t \in DOMAIN dcm \ {<<"0020", "000D">>} |-> dcm[t]]

S3Object(get, read, dcm) == [get_object |-> get, dcmread |-> read, dcm |-> dcm]

Keys == {"a", "b1", "c2", "d", "e", "q", "n", "v", "m"}

Bucket ==
  [key \in Keys |->
     CASE key = "a"  -> S3Object("ok", "ok", Dataset("S1", "E1", "I1", "P1", "1", "1"))
       [] key = "b1" -> S3Object("ok", "ok", WithBodyPart(Dataset("S1", "E2", "I2", "P1", "2", "2")))
       [] key = "c2" -> S3Object("ok", "ok", Dataset("S1", "E1", "I3", "P1", "3", "1"))
       [] key = "d"  -> S3Object("ok", "ok", Dataset("S2", "E1", "I4", "P2", "1", "1"))
       [] key = "e"  -> S3Object("ok", "ok", Dataset("", "E1", "I5", "P1", "2", "1"))
       [] key = "q"  -> S3Object("ok", "ok", Dataset("S1", "E2", "I6", "P1", "", "2"))
       [] key = "n"  -> S3Object("NoSuchKey", "ok", <<>>)
       [] key = "v"  -> S3Object("ok", "InvalidDicomError", <<>>)
       [] key = "m"  -> S3Object("ok", "ok", WithoutStudyUid(Dataset("S1", "E1", "I7", "P1", "1", "1")))]

\* list(s) for a str s: the list of its characters.
list(s) ==
  CASE s = "b1" -> <<"b", "1">>
    [] s = "c2" -> <<"c", "2">>
    [] OTHER    -> <<s>>

\* int(s) for the value of an IS element; "" stands for the value of an
\* empty element, which int() does not take.
int(s) ==
  CASE s = "1" -> Return(1)
    [] s = "2" -> Return(2)
    [] s = "3" -> Return(3)
    [] OTHER   -> Raise("ValueError")

\* prefix + value for two str.
concat(prefix, value) ==
  CASE prefix = "" -> value
    [] value = ""  -> prefix
    [] prefix = "Patient/" /\ value = "P1" -> "Patient/P1"
    [] prefix = "Patient/" /\ value = "P2" -> "Patient/P2"

(***************************************************************************)
(* class Instance                                                          *)
(***************************************************************************)
\* Instance.read_tags_from_s3: the Dataset, or the exception that leaves it.
\* get_object's ClientError is not among the exceptions caught; for
\* InvalidDicomError the handler's own logger.error(...format(key)) names
\* an undefined variable and raises NameError.
read_tags_from_s3(bkt, key) ==
  LET obj == Bucket[key] IN
  IF obj.get_object # "ok" THEN Raise("ClientError")
  ELSE IF obj.dcmread # "ok" THEN Raise("NameError")
  ELSE Return(obj.dcm)

\* The elements read_instance reads, in order.
ReadTags ==
  << <<"0020", "000D">>, <<"0020", "000E">>, <<"0008", "0018">>,
     <<"0010", "0020">>, <<"0008", "0020">>, <<"0020", "0013">>,
     <<"0020", "0011">>, <<"0008", "0060">> >>

\* Instance.__init__ with read_instance: the Instance, or the exception.
read_instance(bkt, key) ==
  LET r == read_tags_from_s3(bkt, key) IN
  IF ~r.ok THEN r
  ELSE IF \E n \in 1..Len(ReadTags) : ReadTags[n] \notin DOMAIN r.val
  THEN Raise("KeyError")
  ELSE LET dcm == r.val IN
       Return([bucket          |-> bkt,
                  key             |-> key,
                  dcm             |-> dcm,
                  study_uid       |-> dcm[<<"0020", "000D">>],
                  series_uid      |-> dcm[<<"0020", "000E">>],
                  instance_uid    |-> dcm[<<"0008", "0018">>],
                  patient_id      |-> dcm[<<"0010", "0020">>],
                  study_date      |-> dcm[<<"0008", "0020">>],
                  instance_number |-> dcm[<<"0020", "0013">>],
                  series_number   |-> dcm[<<"0020", "0011">>],
                  modality        |-> dcm[<<"0008", "0060">>],
                  s3_url          |-> <<"s3://", bkt, key>>])

(***************************************************************************)
(* class Study: assembly                                                   *)
(***************************************************************************)
\* Study.series is a dict, kept here in its insertion order: a sequence of
\* [uid |-> series_uid, sops |-> list of Instance].
SeriesIndex(ser, series_uid) ==
  {n \in 1..Len(ser) : ser[n].uid = series_uid}

\* add_instance with the bug of a known series' list being replaced.
add_instance_replacing(ser, inst) ==
  IF SeriesIndex(ser, inst.series_uid) # {}
  THEN LET n == CHOOSE m \in SeriesIndex(ser, inst.series_uid) : TRUE IN
       [ser EXCEPT ![n].sops = <<inst>>]
  ELSE Append(ser, [uid |-> inst.series_uid, sops |-> <<inst>>])

\* add_instance with the bug of a new series being put before the others.
add_instance_in_front(ser, inst) ==
  IF SeriesIndex(ser, inst.series_uid) # {}
  THEN LET n == CHOOSE m \in SeriesIndex(ser, inst.series_uid) : TRUE IN
       [ser EXCEPT ![n].sops = Append(@, inst)]
  ELSE <<[uid |-> inst.series_uid, sops |-> <<inst>>]>> \o ser

add_instance(ser, inst) ==
  IF SeriesIndex(ser, inst.series_uid) # {}
  THEN LET n == CHOOSE m \in SeriesIndex(ser, inst.series_uid) : TRUE IN
       [ser EXCEPT ![n].sops = Append(@, inst)]
  ELSE Append(ser, [uid |-> inst.series_uid, sops |-> <<inst>>])

\* load_branch with the bug of a mismatching Instance giving the Study its
\* study UID.
load_branch_adopting(study_uid, sop) ==
  CASE study_uid = ""            -> "set_uid"
    [] study_uid = sop.study_uid -> "add"
    [] OTHER                     -> "set_uid"

\* load_branch with the bug of a mismatching Instance being dropped: it is
\* neither added nor sent to the reject queue.
load_branch_skipping(study_uid, sop) ==
  CASE study_uid = ""            -> "set_uid"
    [] study_uid = sop.study_uid -> "add"
    [] OTHER                     -> "skip"

\* The branch Study.load takes for one Instance.
load_branch(study_uid, sop) ==
  CASE study_uid = ""            -> "set_uid"
    [] study_uid = sop.study_uid -> "add"
    [] study_uid # sop.study_uid -> "to_dl_queue"
    [] OTHER                     -> "add"

\* The message Study.to_dl_queue sends.
to_dl_queue(bkt, inst_key) == [bucket |-> bkt, instances |-> list(inst_key)]

(***************************************************************************)
(* Nested documents                                                        *)
(***************************************************************************)
IsDict(node) == "dict" \in DOMAIN node
IsList(node) == "list" \in DOMAIN node

\* Python's list index n (negative: from the end) as an index of the sequence;
\* 0 when out of range.
ListIndex(q, seg) ==
  IF "i" \notin DOMAIN seg THEN 0
  ELSE IF seg.i >= 0 /\ seg.i < Len(q) THEN seg.i + 1
  ELSE IF seg.i < 0 /\ seg.i >= 0 - Len(q) THEN Len(q) + seg.i + 1
  ELSE 0

\* operator.getitem(node, seg).  The locations of the model never index a
\* str or an int node with an integer.
getitem(node, seg) ==
  IF IsDict(node)
  THEN IF seg \in DOMAIN node.dict THEN Return(node.dict[seg]) ELSE Raise("KeyError")
  ELSE IF IsList(node)
  THEN IF "i" \notin DOMAIN seg THEN Raise("TypeError")
       ELSE IF ListIndex(node.list, seg) = 0 THEN Raise("IndexError")
       ELSE Return(node.list[ListIndex(node.list, seg)])
  ELSE Raise("TypeError")

\* node[seg] = val
setitem(node, seg, val) ==
  IF IsDict(node)
  THEN Return(JDict((seg :> val) @@ node.dict))
  ELSE IF IsList(node)
  THEN IF "i" \notin DOMAIN seg THEN Raise("TypeError")
       ELSE IF ListIndex(node.list, seg) = 0 THEN Raise("IndexError")
       ELSE Return(JList([node.list EXCEPT ![ListIndex(node.list, seg)] = val]))
  ELSE Raise("TypeError")

\* reduce(getitem, path[:-1], node)[path[-1]] = val for a path of one segment
\* or more, as the document it leaves: the containers along the path are
\* rebuilt around the one that is assigned to.
RECURSIVE SetAt(_, _, _)
SetAt(node, path, val) ==
  IF Len(path) = 1 THEN setitem(node, path[1], val)
  ELSE LET g == getitem(node, path[1]) IN
       IF ~g.ok THEN g
       ELSE LET r == SetAt(g.val, Tail(path), val) IN
            IF ~r.ok THEN r ELSE setitem(node, path[1], r.val)

\* set_nested_item: mapList[-1] of an empty list raises IndexError.
set_nested_item(dataDict, mapList, val) ==
  IF mapList = <<>> THEN Raise("IndexError") ELSE SetAt(dataDict, mapList, val)

(***************************************************************************)
(* class Study: the FHIR resource                                          *)
(***************************************************************************)
\* The first exception of a list of results, or the list of their values.
Collect(rs) ==
  IF \E n \in 1..Len(rs) : ~rs[n].ok
  THEN rs[CHOOSE n \in 1..Len(rs) : ~rs[n].ok /\ \A m \in 1..(n - 1) : rs[m].ok]
  ELSE Return([n \in 1..Len(rs) |-> rs[n].val])

_instance_to_FHIR(inst) ==
  LET number == int(inst.instance_number) IN
  IF ~number.ok THEN number
  ELSE Return(JDict(
         K("uid") :> JStr(inst.instance_uid) @@
         K("sopClass") :> JDict(K("system") :> JStr("urn:ietf:rfc:3986") @@
                                K("code") :> JStr("urn:oid:1.2.840.10008.5.1.4.1.1.2")) @@
         K("number") :> JInt(number.val) @@
         K("extension") :> JList(<<JDict(
            K("url") :> JStr("http://healthlake.amazonaws.com/s3-uri/") @@
            K("valueUri") :> JUri(inst.s3_url))>>)))

\* sops: the list Study.series holds for the series key.
_series_to_FHIR(sops) ==
  LET number == int(sops[1].series_number)
      instances == Collect([n \in 1..Len(sops) |-> _instance_to_FHIR(sops[n])])
  IN
  IF ~number.ok THEN number
  ELSE IF ~instances.ok THEN instances
  ELSE Return(JDict(
         K("uid") :> JStr(sops[1].series_uid) @@
         K("number") :> JInt(number.val) @@
         K("modality") :> JDict(
            K("system") :> JStr("http://dicom.nema.org/resources/ontology/DCM") @@
            K("code") :> JStr(sops[1].modality)) @@
         K("description") :> JStr(" ") @@
         K("numberOfInstances") :> JInt(Len(sops)) @@
         K("bodySite") :> JDict(K("system") :> JStr("http://snomed.info/sct") @@
                                K("code") :> JStr("123037004") @@
                                K("display") :> JStr("Body structure")) @@
         K("endpoint") :> JList(<<JDict(K("reference") :> JStr("Endpoint/example-wadors"))>>) @@
         K("instance") :> JList(instances.val)))

\* The list Study._series_to_fhir assigns to series_fhir.
_series_to_fhir(ser) ==
  Collect([n \in 1..Len(ser) |-> _series_to_FHIR(ser[n].sops)])

\* fhir_map: the dict built from template_map['template_map'], a later entry
\* of a key replacing an earlier one.
FhirMap(entries) ==
  [key \in {entries[n].key : n \in 1..Len(entries)} |->
     entries[CHOOSE n \in 1..Len(entries) :
               /\ entries[n].key = key
               /\ \A m \in (n + 1)..Len(entries) : entries[m].key # key].location]

Unbound == [unbound |-> TRUE]
Bound(v) == [val |-> v]
IsBound(x) == "val" \in DOMAIN x

\* An exception that leaves _update_fhir_template, with the errors logged
\* before it.
RaiseLogged(e, logged) == [ok |-> FALSE, exc |-> e, log |-> logged]

\* The first loop of _update_fhir_template from entry n of tags_to_fhir on.
\* st holds the locals: updates, tag_value (Unbound before its first
\* assignment) and the logger.error calls made so far.
RECURSIVE ReadUpdates(_, _, _, _, _)
ReadUpdates(rep, fhir_map, tags, n, st) ==
  IF n > Len(tags) THEN Return(st)
  ELSE
    LET tag_to_map == tags[n] IN
    IF tag_to_map \notin DOMAIN dicom_attribute_map THEN RaiseLogged("KeyError", st.log)
    ELSE
      LET tmp_map  == dicom_attribute_map[tag_to_map]
          tmp_tag  == <<tmp_map.key0, tmp_map.key1>>
      IN
      IF rep = None THEN RaiseLogged("AttributeError", st.log)
      ELSE
        LET found == tmp_tag \in DOMAIN rep.dcm
            tag_value ==
              IF ~found THEN st.tag_value
              ELSE IF tmp_map.element_prefix # ""
                   THEN Bound(concat(tmp_map.element_prefix, rep.dcm[tmp_tag]))
                   ELSE Bound(rep.dcm[tmp_tag])
            logged == IF found THEN st.log
                      ELSE Append(st.log, <<"Failed to find", tmp_tag>>)
        IN
        IF tag_to_map \notin DOMAIN fhir_map THEN RaiseLogged("KeyError", logged)
        ELSE IF ~IsBound(tag_value) THEN RaiseLogged("UnboundLocalError", logged)
        ELSE ReadUpdates(rep, fhir_map, tags, n + 1,
               [updates   |-> Append(st.updates, <<fhir_map[tag_to_map], tag_value.val>>),
                tag_value |-> tag_value,
                log       |-> logged])

\* The second loop of _update_fhir_template from update n on: KeyError and
\* IndexError of a write are logged, any other exception leaves the loop.
RECURSIVE WriteUpdates(_, _, _)
WriteUpdates(updates, n, st) ==
  IF n > Len(updates) THEN Return(st)
  ELSE
    LET w == set_nested_item(st.resource, updates[n][1], JStr(updates[n][2])) IN
    IF w.ok
    THEN WriteUpdates(updates, n + 1, [st EXCEPT !.resource = w.val])
    ELSE IF w.exc \in {"KeyError", "IndexError"}
    THEN WriteUpdates(updates, n + 1,
           [st EXCEPT !.log = Append(@, <<"Failed to write", updates[n][1]>>)])
    ELSE RaiseLogged(w.exc, st.log)

RECURSIVE SumInstances(_)
SumInstances(sfhir) ==
  IF sfhir = <<>> THEN 0
  ELSE Len(sfhir[1].dict[K("instance")].list) + SumInstances(Tail(sfhir))

\* _transform_fhir with the bug of counting the series, not their instances.
_transform_fhir_counting_series(resource, sfhir) ==
  IF K("numberOfInstances") \in DOMAIN resource.dict
  THEN JDict((K("numberOfInstances") :> JInt(Len(sfhir))) @@ resource.dict)
  ELSE resource

\* Study._transform_fhir: the resource it leaves in imagingstudy_fhir.
_transform_fhir(resource, sfhir) ==
  IF K("numberOfInstances") \in DOMAIN resource.dict
  THEN JDict((K("numberOfInstances") :> JInt(SumInstances(sfhir))) @@ resource.dict)
  ELSE resource

\* A Python object: its identity and its value.  set_nested_item and the
\* assignments to resource[...] write to the object they are given, so
\* every name of that object sees the writes.
Object(id, val) == [id |-> id, val |-> val]

\* No copy: the same object under a second name.
deepcopy_same(obj) == obj

\* copy.deepcopy: a new object of the same value.
deepcopy(obj) == Object("resource", obj.val)

\* Study._update_fhir_template: [resource, log, template] with the resource it
\* leaves in imagingstudy_fhir, the errors it logged and the value of the
\* template object after the call, or the exception.
_update_fhir_template(rep, sfhir, tmpl, tmap) ==
  LET fhir_map == FhirMap(tmap.template_map)
      r == ReadUpdates(rep, fhir_map, tmap.tags_to_fhir, 1,
                       [updates |-> <<>>, tag_value |-> Unbound, log |-> <<>>])
      template_object == Object("template", tmpl)
      resource_object == deepcopy(template_object)
  IN
  IF ~r.ok THEN r
  ELSE
    LET w == WriteUpdates(r.val.updates, 1,
                          [resource |-> resource_object.val, log |-> r.val.log])
    IN
    IF ~w.ok THEN w
    ELSE
      LET resource ==
            _transform_fhir(JDict((K("series") :> JList(sfhir)) @@ w.val.resource.dict),
                            sfhir)
      IN Return([resource |-> resource,
                 log      |-> w.val.log,
                 template |-> IF resource_object.id = template_object.id
                              THEN resource
                              ELSE template_object.val])


(***************************************************************************)
(* The inputs of one invocation                                            *)
(***************************************************************************)
Template ==
  JDict(K("resourceType") :> JStr("ImagingStudy") @@
        K("identifier") :> JList(<<JDict(K("system") :> JStr("urn:dicom:uid") @@
                                         K("value") :> JStr("default"))>>) @@
        K("status") :> JStr("available") @@
        K("subject") :> JDict(K("reference") :> JStr("Patient/default")) @@
        K("started") :> JStr("default") @@
        K("series") :> JList(<<>>))

TemplateWithCount ==
  JDict((K("numberOfInstances") :> JInt(0)) @@ Template.dict)

Templates == {Template, TemplateWithCount}

\* The tags a template map of the model maps: one with an element_prefix,
\* one that read_instance does not require of an instance.
MapTags == {"(0010,0020)", "(0018,0015)"}

\* Template locations: two that the templates hold, and six that they do not.
Locations ==
  { <<K("subject"), K("reference")>>,
    <<K("identifier"), I(0), K("value")>>,
    <<K("subject"), K("display")>>,
    <<K("patient"), K("reference")>>,
    <<K("identifier"), I(1), K("value")>>,
    <<K("identifier"), I(1)>>,
    <<K("started"), K("x")>>,
    <<>> }

TemplateMap(loc, tags) ==
  [template_map |-> << [key |-> "(0010,0020)", location |-> loc["(0010,0020)"]],
                       [key |-> "(0018,0015)", location |-> loc["(0018,0015)"]] >>,
   tags_to_fhir |-> tags]

TemplateMaps ==
  {TemplateMap(loc, tags) : loc \in [MapTags -> Locations], tags \in SeqUpTo(MapTags, MaxTags)}

DefaultTemplateMap ==
  TemplateMap("(0010,0020)" :> <<K("subject"), K("reference")>> @@
              "(0018,0015)" :> <<K("identifier"), I(0), K("value")>>,
              <<"(0010,0020)">>)

\* The payloads that are run against every template and template map; every
\* payload is run against Template and DefaultTemplateMap.
MappedPayloads == {<<>>, <<"a">>, <<"b1">>, <<"a", "b1", "c2">>}

\* Status codes of HealthLake's response.
StatusCodes == {201, 400}

\* json.loads(payload['body']): an object, a list of objects, or a string.
\* Every object of the model names the ingest bucket.
DictBody(keys) == [type |-> "dict", bucket |-> bucket, instances |-> keys]
ListBody(items) == [type |-> "list", items |-> items]
StrBody == [type |-> "str"]

\* The bodies of the events of more or fewer records than one, and of the
\* bodies that are no object.
Bodies ==
  { DictBody(<<"a">>),
    DictBody(<<"n">>),
    ListBody(<<DictBody(<<"a", "d">>)>>),
    ListBody(<<>>),
    ListBody(<<DictBody(<<"a">>), DictBody(<<"d">>)>>),
    StrBody }

(***************************************************************************)
(* sqs_lambda_handler                                                      *)
(***************************************************************************)
\* The branches on type(body): bucket and instances, or the exception.  The
\* last branch builds a ValueError and does not raise it; the statement
\* after it reads bucket, which no branch has assigned.
parse_body(body) ==
  IF body.type = "dict"
  THEN Return([bucket |-> body.bucket, instances |-> body.instances])
  ELSE IF body.type = "list" /\ Len(body.items) = 1
  THEN Return([bucket |-> body.items[1].bucket, instances |-> body.items[1].instances])
  ELSE Raise("UnboundLocalError")

\* A handler that reports success whatever the response r says.
handler_return_ok(r) ==
  [statusCode |-> 200,
   headers    |-> [ContentType |-> "text/plain"],
   body       |-> <<"POST to HealthLake returned", r.status_code, r.text>>]

\* The dict the handler returns for the response r.
handler_return(r) ==
  [statusCode |-> r.status_code,
   headers    |-> [ContentType |-> "text/plain"],
   body       |-> <<"POST to HealthLake returned", r.status_code, r.text>>]

\* A handler that goes on to the next record after the POST.
after_return_continuing == "handler"

\* Where the handler is after its return statement, which is inside the
\* loop over event['Records'].
after_return == "done"

VARIABLES
  instance_keys,      \* body['instances']
  template,           \* the template document read from S3
  template_map,       \* the template map read from S3
  pc,                 \* where the handler is
  pos,                \* Study.load: index of the next key of instance_keys
  uid,                \* Study.uid
  instance,           \* Study.instance
  series,             \* Study.series
  series_fhir,        \* Study.series_fhir
  imagingstudy_fhir,  \* Study.imagingstudy_fhir
  bad_queue,          \* messages sent to BAD_QUEUE
  log,                \* logger.error calls
  exc,                \* the exception that ended the handler, or None
  posted,             \* resources POSTed to HealthLake
  result,             \* the handler's return value, or None
  event,              \* event['Records'], as the list of the records' bodies
  record,             \* how many records the loop has taken
  studies,            \* how many Study objects were constructed
  response,           \* the response of HealthLake, or None
  calls,              \* how many times Study.imagingstudy was called
  loaded,             \* the template object of imagingstudy after the mapping, or None
  previous            \* the document of the call of imagingstudy before this one, or None

vars == <<instance_keys, template, template_map, pc, pos, uid, instance,
          series, series_fhir, imagingstudy_fhir, bad_queue, log, exc,
          posted, result, event, record, studies, response, calls, loaded,
          previous>>

\* The handler is entered.  Every payload is run against Template and
\* DefaultTemplateMap, the payloads of MappedPayloads against every template
\* and template map, and the events of Bodies against Template and
\* DefaultTemplateMap.
Init ==
  /\ template \in Templates
  /\ template_map \in TemplateMaps
  /\ \/ /\ \E keys \in SeqUpTo(Keys, MaxKeys) : event = <<DictBody(keys)>>
        /\ template = Template /\ template_map = DefaultTemplateMap
     \/ \E keys \in MappedPayloads : event = <<DictBody(keys)>>
     \/ /\ event \in SeqUpTo(Bodies, MaxRecords)
        /\ Len(event) <= batch_size
        /\ template = Template /\ template_map = DefaultTemplateMap
  /\ record = 0
  /\ studies = 0
  /\ response = None
  /\ calls = 0
  /\ loaded = None
  /\ previous = None
  /\ instance_keys = <<>>
  /\ pc = "handler"
  /\ pos = 1
  /\ uid = ""
  /\ instance = None
  /\ series = <<>>
  /\ series_fhir = <<>>
  /\ imagingstudy_fhir = JDict(<<>>)
  /\ bad_queue = <<>>
  /\ log = <<>>
  /\ exc = None
  /\ posted = <<>>
  /\ result = None

\* An exception leaves the handler.
Raised(e, where) ==
  /\ pc' = "raised"
  /\ exc' = [type |-> e, in |-> where]

\* The loop over event['Records']: the next record's body is parsed and the
\* Study is constructed; with no record left the handler returns None.
Handler ==
  /\ pc = "handler"
  /\ IF record = Len(event)
     THEN /\ pc' = "done"
          /\ UNCHANGED <<instance_keys, pos, uid, instance, series, series_fhir,
                         imagingstudy_fhir, exc, record, studies, calls>>
     ELSE LET p == parse_body(event[record + 1]) IN
          /\ record' = record + 1
          /\ IF ~p.ok
             THEN /\ Raised(p.exc, "sqs_lambda_handler")
                  /\ UNCHANGED <<instance_keys, pos, uid, instance, series,
                                 series_fhir, imagingstudy_fhir, studies, calls>>
             ELSE /\ instance_keys' = p.val.instances
                  /\ studies' = studies + 1
                  /\ pos' = 1
                  /\ uid' = ""
                  /\ instance' = None
                  /\ series' = <<>>
                  /\ series_fhir' = <<>>
                  /\ imagingstudy_fhir' = JDict(<<>>)
                  /\ calls' = 0
                  /\ pc' = IF p.val.instances = <<>> THEN "imagingstudy" ELSE "load"
                  /\ exc' = exc
  /\ UNCHANGED <<template, template_map, bad_queue, log, posted, result, event,
                 response, loaded, previous>>

\* One turn of the loop of Study.load.
Load ==
  /\ pc = "load"
  /\ pos <= Len(instance_keys)
  /\ LET key == instance_keys[pos]
         r   == read_instance(bucket, key)
     IN
     IF ~r.ok
     THEN /\ Raised(r.exc, "Instance")
          /\ UNCHANGED <<pos, uid, instance, series, bad_queue, log>>
     ELSE LET sop    == r.val
              branch == load_branch(uid, sop)
          IN
          /\ uid' = IF branch = "set_uid" THEN sop.study_uid ELSE uid
          /\ series' = IF branch \in {"set_uid", "add"}
                       THEN add_instance(series, sop) ELSE series
          /\ log' = IF branch = "to_dl_queue"
                    THEN Append(log, <<"different Study UID", key>>) ELSE log
          /\ bad_queue' = IF branch = "to_dl_queue"
                          THEN Append(bad_queue, to_dl_queue(bucket, key))
                          ELSE bad_queue
          /\ instance' = IF instance = None THEN sop ELSE instance
          /\ pos' = pos + 1
          /\ pc' = IF pos + 1 > Len(instance_keys) THEN "imagingstudy" ELSE "load"
          /\ exc' = exc
  /\ UNCHANGED <<instance_keys, template, template_map, series_fhir,
                 imagingstudy_fhir, posted, result, event, record, studies,
                 response, calls, loaded, previous>>

\* Study.imagingstudy: _series_to_fhir.
SeriesToFhir ==
  /\ pc = "imagingstudy"
  /\ LET r == _series_to_fhir(series) IN
     IF r.ok
     THEN /\ series_fhir' = r.val
          /\ pc' = "update_fhir_template"
          /\ exc' = exc
     ELSE /\ Raised(r.exc, "_series_to_fhir")
          /\ series_fhir' = series_fhir
  /\ calls' = calls + 1
  /\ UNCHANGED <<instance_keys, template, template_map, pos, uid, instance,
                 series, imagingstudy_fhir, bad_queue, log, posted, result,
                 event, record, studies, response, loaded, previous>>

\* Study.imagingstudy: _template_from_s3 and _update_fhir_template.
UpdateFhirTemplate ==
  /\ pc = "update_fhir_template"
  /\ LET r == _update_fhir_template(instance, series_fhir, template, template_map) IN
     IF r.ok
     THEN /\ imagingstudy_fhir' = r.val.resource
          /\ loaded' = r.val.template
          /\ log' = log \o r.val.log
          /\ pc' = "transform_fhir"
          /\ exc' = exc
     ELSE /\ Raised(r.exc, "_update_fhir_template")
          /\ log' = log \o r.log
          /\ UNCHANGED <<imagingstudy_fhir, loaded>>
  /\ UNCHANGED <<instance_keys, template, template_map, pos, uid, instance,
                 series, series_fhir, bad_queue, posted, result, event, record,
                 studies, response, calls, previous>>

\* Study.imagingstudy: the closing _transform_fhir.
TransformFhir ==
  /\ pc = "transform_fhir"
  /\ imagingstudy_fhir' = _transform_fhir(imagingstudy_fhir, series_fhir)
  /\ pc' = "post_to_healthlake"
  /\ UNCHANGED <<instance_keys, template, template_map, pos, uid, instance,
                 series, series_fhir, bad_queue, log, exc, posted, result,
                 event, record, studies, response, calls, loaded, previous>>

\* Study.post_to_healthlake and the handler's return: the request is sent
\* once; the response's status code is returned, or the transport's
\* exception leaves the handler.
PostToHealthlake ==
  /\ pc = "post_to_healthlake"
  /\ IF K("resourceType") \notin DOMAIN imagingstudy_fhir.dict
     THEN /\ Raised("KeyError", "post_to_healthlake")
          /\ UNCHANGED <<posted, result, response>>
     ELSE /\ posted' = Append(posted, imagingstudy_fhir)
          /\ \/ \E status_code \in StatusCodes :
                  /\ response' = [status_code |-> status_code, text |-> "text"]
                  /\ result' = handler_return(response')
                  /\ pc' = after_return
                  /\ exc' = exc
             \/ /\ Raised("HTTPClientError", "post_to_healthlake")
                /\ UNCHANGED <<result, response>>
  /\ UNCHANGED <<instance_keys, template, template_map, pos, uid, instance,
                 series, series_fhir, imagingstudy_fhir, bad_queue, log, event,
                 record, studies, calls, loaded, previous>>

Next ==
  \/ Handler
  \/ Load
  \/ SeriesToFhir
  \/ UpdateFhirTemplate
  \/ TransformFhir
  \/ PostToHealthlake

Spec == Init /\ [][Next]_vars

\* A caller that has the document built again for the same Study before it
\* is submitted: Study.imagingstudy is called once more, with the same
\* template and template map.
ImagingstudyAgain ==
  /\ pc = "post_to_healthlake"
  /\ calls < MaxCalls
  /\ previous' = imagingstudy_fhir
  /\ pc' = "imagingstudy"
  /\ UNCHANGED <<instance_keys, template, template_map, pos, uid, instance,
                 series, series_fhir, imagingstudy_fhir, bad_queue, log, exc,
                 posted, result, event, record, studies, response, calls, loaded>>

NextTwice ==
  \/ Next
  \/ ImagingstudyAgain

SpecTwice == Init /\ [][NextTwice]_vars


(***************************************************************************)
(* What the payload holds, read off the bucket and not off the Study: the  *)
(* terms the properties below are stated in.                               *)
(***************************************************************************)
Positions == 1..Len(instance_keys)

KeyAt(j) == instance_keys[j]

\* The object's bytes cannot be fetched, its header cannot be decoded, or
\* an element read_instance requires is missing.
ReadFails(key) ==
  \/ Bucket[key].get_object # "ok"
  \/ Bucket[key].dcmread # "ok"
  \/ \E n \in 1..Len(ReadTags) : ReadTags[n] \notin DOMAIN Bucket[key].dcm

StudyOf(key) == Bucket[key].dcm[<<"0020", "000D">>]
SeriesOf(key) == Bucket[key].dcm[<<"0020", "000E">>]

\* The n-th smallest member of a set of positions.
Nth(P, n) == CHOOSE j \in P : Cardinality({x \in P : x <= j}) = n

\* The keys at the positions P, in the order of the payload.
KeysAt(P) == [n \in 1..Cardinality(P) |-> KeyAt(Nth(P, n))]

\* Study.load has returned or has been left by an exception.
LoadEnded == studies = 1 /\ pc # "load"

\* Study.load has returned: every key was read.
LoadReturned == studies = 1 /\ pc # "load" /\ pos = Len(instance_keys) + 1

\* The identity established by the first j keys: the first study UID among
\* them that is not '', and '' while there is none.
Established(j) ==
  LET named == {m \in 1..j : StudyOf(KeyAt(m)) # ""} IN
  IF named = {} THEN "" ELSE StudyOf(KeyAt(Nth(named, 1)))

\* Position j matches the identity established before it, or establishes it.
Matches(j) == Established(j - 1) = "" \/ StudyOf(KeyAt(j)) = Established(j - 1)

\* The Instances the Study holds, as <<series index, index in the series>>.
Held == UNION {{<<n, m>> : m \in 1..Len(series[n].sops)} : n \in 1..Len(series)}

HoldsKey(key) == \E h \in Held : series[h[1]].sops[h[2]].key = key

\* _update_fhir_template has returned: imagingstudy_fhir is the document.
Mapped == studies = 1 /\ pc \in {"transform_fhir", "post_to_healthlake", "done"}

RaisedIn(where) == pc = "raised" /\ exc.in = where

RECURSIVE GetAt(_, _)
GetAt(node, path) ==
  IF path = <<>> THEN Return(node)
  ELSE LET g == getitem(node, path[1]) IN
       IF ~g.ok THEN g ELSE GetAt(g.val, Tail(path))

\* The path names a location the document holds.
Resolves(doc, path) == path # <<>> /\ GetAt(doc, path).ok

\* The series fragments of the document.
Fragments == imagingstudy_fhir.dict[K("series")].list

FragmentUid(f) == f.dict[K("uid")].str
FragmentInstances(f) == f.dict[K("instance")].list
FragmentCount(f) == f.dict[K("numberOfInstances")].int


(***************************************************************************)
(* C1.  A key whose read fails is recorded for rejection and does not end  *)
(* the batch: every key read so far that failed has a rejection, and when  *)
(* Study.load is over every key of the payload has been processed.         *)
(* The code does not keep this: the exception of a failed read leaves      *)
(* Study.load.                                                             *)
(***************************************************************************)
RejectionRecorded(key) ==
  \E n \in 1..Len(bad_queue) :
     \E m \in 1..Len(bad_queue[n].instances) : bad_queue[n].instances[m] = key

C1_ReadFailureIsolated ==
  /\ LoadEnded => pos = Len(instance_keys) + 1
  /\ \A j \in Positions :
       (ReadFails(KeyAt(j)) /\ (j < pos \/ LoadEnded)) => RejectionRecorded(KeyAt(j))

(***************************************************************************)
(* C2.  Every Instance the Study holds has the Study's study UID.          *)
(* The code does not keep this when the first study UID read is '': uid    *)
(* stays '' and the next Instance sets it.                                  *)
(***************************************************************************)
C2_HeldInstancesHaveStudyUid ==
  \A h \in Held : series[h[1]].sops[h[2]].study_uid = uid

(***************************************************************************)
(* C3.  Once the first key has given the Study a study UID S1 (not ''),    *)
(* at every point of Study.load and after it: uid is S1; each key read so  *)
(* far is held by the Study if its study UID is S1 and is not held         *)
(* otherwise; one message went to the reject queue for each key read so    *)
(* far whose study UID is not S1; and a mismatch does not end the loop.    *)
(***************************************************************************)
C3_MismatchLeavesIdentity ==
  (pos > 1 /\ StudyOf(KeyAt(1)) # "") =>
     LET S1   == StudyOf(KeyAt(1))
         read == 1..(pos - 1)
     IN
     /\ uid = S1
     /\ \A j \in read : HoldsKey(KeyAt(j)) <=> StudyOf(KeyAt(j)) = S1
     /\ Len(bad_queue) = Cardinality({j \in read : StudyOf(KeyAt(j)) # S1})
     /\ (LoadEnded /\ ~RaisedIn("Instance")) => pos = Len(instance_keys) + 1

\* [A(S1), C(S2), B(S1)]: C was rejected and B, after it, is held.
C3_Witness ==
  /\ LoadReturned
  /\ Len(instance_keys) = 3
  /\ StudyOf(KeyAt(1)) = "S1" /\ StudyOf(KeyAt(2)) = "S2" /\ StudyOf(KeyAt(3)) = "S1"
  /\ KeyAt(3) # KeyAt(1)
  /\ uid = "S1"
  /\ HoldsKey(KeyAt(1)) /\ ~HoldsKey(KeyAt(2)) /\ HoldsKey(KeyAt(3))
  /\ Len(bad_queue) = 1

(***************************************************************************)
(* C4.  When Study.load has returned and keys were rejected, the reject    *)
(* queue holds one message, with the bucket and the list of the rejected   *)
(* keys.  The code sends one message per rejected key, and its 'instances' *)
(* is list(key): the characters of the key.                                *)
(***************************************************************************)
RejectedPositions == {j \in Positions : ~Matches(j)}

C4_OneBatchedRejectMessage ==
  (LoadReturned /\ RejectedPositions # {}) =>
     bad_queue = << [bucket |-> bucket, instances |-> KeysAt(RejectedPositions)] >>

(***************************************************************************)
(* C5.  When Study.load is over and some key of the payload can be read,   *)
(* uid is the study UID of the first such key, the representative          *)
(* Instance is that key's, it is held in the series mapping and its study  *)
(* UID is uid.  The code does not keep this: a failed read before the      *)
(* first successful one ends Study.load.                                    *)
(***************************************************************************)
Readable == {j \in Positions : ~ReadFails(KeyAt(j))}

C5_IdentityFromFirstReadable ==
  (LoadEnded /\ Readable # {}) =>
     LET first == KeyAt(Nth(Readable, 1)) IN
     /\ uid = StudyOf(first)
     /\ instance # None
     /\ instance.key = first
     /\ instance.study_uid = uid
     /\ \E h \in Held : series[h[1]].sops[h[2]] = instance

(***************************************************************************)
(* C6.  A payload none of whose keys can be read (an empty one too) is     *)
(* never POSTed and returns no result, whatever the template and the       *)
(* template map.  The code does not keep this for an empty payload and a   *)
(* template map with no tags_to_fhir: nothing touches the missing          *)
(* representative, and the template is POSTed with an empty series list.   *)
(***************************************************************************)
C6_EmptyStudyNotSubmitted ==
  Readable = {} => (posted = <<>> /\ result = None)

(***************************************************************************)
(* C7.  When _update_fhir_template is over, an entry of tags_to_fhir whose *)
(* element the representative lacks has raised no error out of it and has  *)
(* left its location as the template has it (as far as no other entry      *)
(* writes there), and the entries whose elements the representative has    *)
(* are written.  The code does not keep this: tag_value is unbound for a   *)
(* first such entry, and holds the previous entry's value for a later one. *)
(***************************************************************************)
Entries == 1..Len(template_map.tags_to_fhir)

EntryTag(p) ==
  LET m == dicom_attribute_map[template_map.tags_to_fhir[p]] IN <<m.key0, m.key1>>

EntryLocation(p) == FhirMap(template_map.template_map)[template_map.tags_to_fhir[p]]

EntryValue(p) ==
  concat(dicom_attribute_map[template_map.tags_to_fhir[p]].element_prefix,
         instance.dcm[EntryTag(p)])

Absent(p) == EntryTag(p) \notin DOMAIN instance.dcm

\* No entry after p writes to the location of p.
LastWriter(p) ==
  \A q \in Entries : (q > p /\ ~Absent(q)) => EntryLocation(q) # EntryLocation(p)

C7_AbsentTagLeavesDefault ==
  instance # None =>
    /\ (RaisedIn("_update_fhir_template") /\ \E p \in Entries : Absent(p))
          => exc.type # "UnboundLocalError"
    /\ Mapped =>
         \A p \in Entries :
            /\ (Absent(p) /\ \A q \in Entries : ~Absent(q) => EntryLocation(q) # EntryLocation(p))
                  => GetAt(imagingstudy_fhir, EntryLocation(p)) = GetAt(template, EntryLocation(p))
            /\ (~Absent(p) /\ Resolves(template, EntryLocation(p)) /\ LastWriter(p)
                 /\ \A q \in Entries : Absent(q) => EntryLocation(q) # EntryLocation(p))
                  => GetAt(imagingstudy_fhir, EntryLocation(p)) = Return(JStr(EntryValue(p)))

(***************************************************************************)
(* C8.  When _update_fhir_template has returned, an entry whose location   *)
(* the template does not hold has been logged as a failed write and the    *)
(* document does not hold that location either.  (Stated of the template   *)
(* maps all of whose elements the representative has, so that no value of  *)
(* another entry is written: see C7.)  The code does not keep this for a   *)
(* location whose last segment alone is missing from a dict: the           *)
(* assignment adds the key.                                                 *)
(***************************************************************************)
WriteFailureLogged(loc) ==
  \E n \in 1..Len(log) : log[n] = <<"Failed to write", loc>>

C8_NoNewStructure ==
  (Mapped /\ \A q \in Entries : ~Absent(q)) =>
    \A p \in Entries :
       ~Resolves(template, EntryLocation(p)) =>
          /\ ~Resolves(imagingstudy_fhir, EntryLocation(p))
          /\ WriteFailureLogged(EntryLocation(p))

(***************************************************************************)
(* C9.  When the document is built from a payload whose keys all have one  *)
(* study UID, its 'series' list has one fragment per series UID of the     *)
(* payload, and each fragment's numberOfInstances and the length of its    *)
(* 'instance' list are the number of keys of the payload with that series  *)
(* UID.                                                                     *)
(***************************************************************************)
OneStudy == \A j \in Positions : StudyOf(KeyAt(j)) = StudyOf(KeyAt(1))

WithSeries(series_uid) == {j \in Positions : SeriesOf(KeyAt(j)) = series_uid}

C9_SeriesAndInstanceCounts ==
  (Mapped /\ OneStudy) =>
     /\ Len(Fragments) = Cardinality({SeriesOf(KeyAt(j)) : j \in Positions})
     /\ \A n, m \in 1..Len(Fragments) :
          FragmentUid(Fragments[n]) = FragmentUid(Fragments[m]) => n = m
     /\ \A n \in 1..Len(Fragments) :
          LET count == Cardinality(WithSeries(FragmentUid(Fragments[n]))) IN
          /\ count > 0
          /\ FragmentCount(Fragments[n]) = count
          /\ Len(FragmentInstances(Fragments[n])) = count

\* Two series, one of two instances and one of one.
C9_Witness ==
  /\ Mapped
  /\ pc = "done"
  /\ OneStudy
  /\ Len(Fragments) = 2
  /\ FragmentCount(Fragments[1]) = 2
  /\ FragmentCount(Fragments[2]) = 1

(***************************************************************************)
(* C10.  When the document is built, its series fragments are in the order *)
(* in which the series UIDs of the held keys first appear in the payload,  *)
(* and the elements of each fragment's 'instance' list are the held keys   *)
(* of that series in the order of the payload (an element names its key by *)
(* its S3 URI).                                                             *)
(***************************************************************************)
HeldPositions == {j \in Positions : Matches(j)}

FirstOfSeries ==
  {j \in HeldPositions :
     \A m \in HeldPositions : m < j => SeriesOf(KeyAt(m)) # SeriesOf(KeyAt(j))}

InstanceUri(e) == e.dict[K("extension")].list[1].dict[K("valueUri")].uri

C10_ArrivalOrder ==
  Mapped =>
    /\ Len(Fragments) = Cardinality(FirstOfSeries)
    /\ \A n \in 1..Len(Fragments) :
         LET series_uid == SeriesOf(KeyAt(Nth(FirstOfSeries, n)))
             members == {j \in HeldPositions : SeriesOf(KeyAt(j)) = series_uid}
             elements == FragmentInstances(Fragments[n])
         IN
         /\ FragmentUid(Fragments[n]) = series_uid
         /\ Len(elements) = Cardinality(members)
         /\ \A m \in 1..Len(elements) :
              InstanceUri(elements[m]) = <<"s3://", bucket, KeyAt(Nth(members, m))>>

\* Series interleave in the payload: E1, E2, E1.
C10_Witness ==
  /\ pc = "done"
  /\ Len(instance_keys) = 3
  /\ SeriesOf(KeyAt(1)) = SeriesOf(KeyAt(3))
  /\ SeriesOf(KeyAt(1)) # SeriesOf(KeyAt(2))
  /\ KeyAt(1) # KeyAt(3)
  /\ Len(Fragments) = 2
  /\ Len(FragmentInstances(Fragments[1])) = 2

(***************************************************************************)
(* C11.  When the document is built: if the template has a top-level       *)
(* numberOfInstances, the document's numberOfInstances is the sum of the   *)
(* series fragments' instance counts (which is the number of held keys);   *)
(* if the template has none, the document has none.                         *)
(***************************************************************************)
RECURSIVE SumOfCounts(_)
SumOfCounts(frags) ==
  IF frags = <<>> THEN 0 ELSE FragmentCount(frags[1]) + SumOfCounts(Tail(frags))

C11_TotalInstanceCount ==
  Mapped =>
    IF K("numberOfInstances") \in DOMAIN template.dict
    THEN /\ K("numberOfInstances") \in DOMAIN imagingstudy_fhir.dict
         /\ imagingstudy_fhir.dict[K("numberOfInstances")] = JInt(SumOfCounts(Fragments))
         /\ SumOfCounts(Fragments) = Cardinality(HeldPositions)
    ELSE K("numberOfInstances") \notin DOMAIN imagingstudy_fhir.dict

\* Series of two instances and of one: the count is 3.
C11_Witness ==
  /\ pc = "done"
  /\ K("numberOfInstances") \in DOMAIN template.dict
  /\ Len(Fragments) = 2
  /\ FragmentCount(Fragments[1]) = 2 /\ FragmentCount(Fragments[2]) = 1
  /\ imagingstudy_fhir.dict[K("numberOfInstances")] = JInt(3)

(***************************************************************************)
(* C12.  A body that is neither one {bucket, instances} object nor a list  *)
(* of exactly one such object ends the handler with an explicit            *)
(* malformed-batch error (the ValueError 'Unrecognized payload body'): no  *)
(* Study is constructed, nothing is submitted, and the handler does not    *)
(* fail with another exception.                                            *)
(***************************************************************************)
Malformed(body) ==
  ~ \/ body.type = "dict"
    \/ body.type = "list" /\ Len(body.items) = 1

\* The body of the record the loop has taken.
Taken == event[record]

C12_MalformedBatchSurfaced ==
  (record > 0 /\ Malformed(Taken)) =>
     /\ studies = 0
     /\ posted = <<>>
     /\ pc = "raised"
     /\ exc = [type |-> "ValueError", in |-> "sqs_lambda_handler"]

(***************************************************************************)
(* C13.  The document is submitted at most once in an invocation, whatever *)
(* the status of the response and also when the request fails, and the     *)
(* handler's result exists exactly when there is a response and carries    *)
(* the response's status code unchanged.                                   *)
(***************************************************************************)
C13_SubmitOnceStatusUnchanged ==
  /\ Len(posted) <= 1
  /\ (result = None) <=> (response = None)
  /\ response # None =>
       /\ Len(posted) = 1
       /\ pc = "done"
       /\ result.statusCode = response.status_code

\* HealthLake answered 400 and the handler returned 400.
C13_Witness ==
  /\ pc = "done"
  /\ Len(posted) = 1
  /\ response # None
  /\ response.status_code = 400
  /\ result.statusCode = 400

(***************************************************************************)
(* C14.  Building the document a second time for the same Study, template  *)
(* and template map gives the document of the first time: the second call  *)
(* of imagingstudy raises nothing and leaves in imagingstudy_fhir what the *)
(* first call left.  The template object that was loaded has, after the    *)
(* mapping, the value it was loaded with.                                  *)
(***************************************************************************)
BuiltAgain == previous # None /\ pc \in {"post_to_healthlake", "done"}

ReadPositions == {j \in Positions : j < pos}

HeldCount(key) == Cardinality({h \in Held : series[h[1]].sops[h[2]].key = key})

RejectedCount(key) ==
  Cardinality({n \in 1..Len(bad_queue) : bad_queue[n] = to_dl_queue(bucket, key)})

C15_HeldOrRejected ==
  /\ \A key \in Keys :
       /\ HeldCount(key) =
            Cardinality({j \in ReadPositions : KeyAt(j) = key /\ Matches(j)})
       /\ RejectedCount(key) =
            Cardinality({j \in ReadPositions : KeyAt(j) = key /\ ~Matches(j)})
  /\ Cardinality(Held) + Len(bad_queue) = Cardinality(ReadPositions)
  /\ LoadReturned =>
       Cardinality(Held) + Len(bad_queue) = Cardinality(Readable)

\* Three keys were read: the first and the third are held, in two series,
\* and the second was rejected.
C15_Witness ==
  /\ LoadReturned
  /\ Len(instance_keys) = 3
  /\ Cardinality({KeyAt(j) : j \in Positions}) = 3
  /\ Matches(1) /\ ~Matches(2) /\ Matches(3)
  /\ Len(series) = 2
  /\ Len(bad_queue) = 1

(***************************************************************************)
(* C16.  An invocation takes the first record of event['Records'] only:    *)
(* at most one Study is constructed and at most one document is submitted, *)
(* the keys of the Study and the result are those of the first record, the *)
(* records after the first are never taken, and an event of no records     *)
(* submits nothing and returns None.  The queue delivers up to batch_size  *)
(* records in an event.                                                    *)
(***************************************************************************)
C16_FirstRecordOnly ==
  /\ Len(event) <= batch_size
  /\ record <= 1
  /\ studies <= 1
  /\ Len(posted) <= 1
  /\ studies = 1 =>
       /\ record = 1
       /\ parse_body(event[1]).ok
       /\ instance_keys = parse_body(event[1]).val.instances
  /\ result # None => (studies = 1 /\ result = handler_return(response))
  /\ (pc = "done" /\ event # <<>>) => (record = 1 /\ result # None)
  /\ event = <<>> =>
       /\ pc \in {"handler", "done"}
       /\ studies = 0
       /\ posted = <<>>
       /\ result = None

\* The handler has returned the result of the first of two records.
C16_Witness ==
  /\ pc = "done"
  /\ Len(event) = 2
  /\ event[2] = DictBody(<<"a">>)
  /\ event[1] = ListBody(<<DictBody(<<"a", "d">>)>>)
  /\ record = 1
  /\ studies = 1
  /\ Len(posted) = 1
  /\ result # None

\* The handler has returned None for an event of no records.
C16_WitnessNoRecords ==
  /\ pc = "done"
  /\ event = <<>>
  /\ result = None

=============================================================================
